---- MODULE Spec2Model ----
(***************************************************************************)
(* Place recommendations: the query pipeline of                            *)
(* PlaceRecommendationService.get_recommendations (embedding, vector       *)
(* search in Qdrant, relational fusion in PostgreSQL, ranking) and the     *)
(* batch indexer PlaceEmbeddingQdrantGenerator.process_all_places.         *)
(*                                                                         *)
(* Similarity scores are modelled in tenths: 1 stands for 0.1.            *)
(***************************************************************************)
EXTENDS Integers, Sequences, FiniteSets, TLC

\* ------------------------------------------------------------------ bounds
\* number of rows of public.places (live or soft-deleted)
NumPlaces == 3
\* largest `limit` a request asks for
MaxLimit == 2
\* largest batch_size a batch run is started with
MaxBatch == 2

\* ------------------------------------------------------- program constants
\* score_threshold=0.1 passed to search_similar_places, in tenths
ScoreThreshold == 1
\* score_map.get(place_id, 0.0), in tenths
DefaultScore == 0
\* PlaceEmbeddingRepository.vector_size
VectorSize == 1536
\* PlaceEmbeddingQdrantGenerator.max_retries
MaxRetries == 3
\* PlaceEmbeddingQdrantGenerator.retry_delay (seconds)
RetryDelay == 1

\* ------------------------------------------------------------ value domains
Ids == 1..NumPlaces
\* similarity in tenths: below the threshold, at it, above it
Scores == 0..(ScoreThreshold + 1)
Descriptions == {"cafe", "bar"}
\* the dimensions an embedding provider answer can have
Dims == {VectorSize, 2 * VectorSize}
\* string forms of a point id: the canonical str(UUID), another spelling that
\* UUID() accepts (upper case, no hyphens), and a string UUID() rejects
Forms == {"canon", "alt", "bad"}
IdStr(f, u) == [form |-> f, u |-> u]
Invalid == 0

VARIABLES
    deleted,    \* ids of the rows whose deleted_at is set
    points,     \* ids that have a point in the Qdrant collection
    sim,        \* similarity of the query to the point of each id
    collSize,   \* vector size the collection is configured with (0: there is
                \* no collection of the configured name)
    ccalls,     \* what the last create_collection did: its provider calls in
                \* order, then "raised" if it ended with an exception
    qpc,        \* position of get_recommendations
    qin,        \* its arguments: description, limit
    qvec,       \* dimension of query_embedding (0: none yet)
    hits,       \* similar_places: sequence of [id, score]
    places,     \* what get_places_by_ids returned, in the order returned
    rsp,        \* the RecommendationResponse returned
    qout,       \* "none", "returned" or "raised"
    qcalls,     \* remote calls made by the current request, in order
    qfail,      \* the step of the current request that failed, or "none"
    other,      \* the locals of the other request in flight (a record of the
                \* nine variables above)
    bpc,        \* position of process_all_places
    bin,        \* its arguments: batch_size, skip_existing
    stats,      \* the statistics dictionary
    offset,     \* pagination offset
    page,       \* the ids of the page being processed, in order
    idx,        \* position of the current record in the page
    attempt,    \* generate_embedding: the loop variable
    slept,      \* generate_embedding: the delays slept so far, in order
    emb,        \* generate_embedding: "none", "vector" or "None" (its result)
    tries,      \* generate_embedding: calls of embeddings.create so far
    log,        \* records finished in this run: [id, out], in order
    points0,    \* the points the collection held when this run started
    retrErr,    \* a retrieve call of this run raised
    berr,       \* the relational store raised in this run
    upErr,      \* ids of the records whose upsert_embedding raised in this run
    prev,       \* how the run before this one ended: "none" (there was none,
                \* or it ran with skip_existing=false, or the store raised),
                \* "failed" (some record failed), "clean"
    bcalls,     \* the calls this run made for its records, each with whether
                \* it answered: retrieve, generate_embedding, client.upsert
    session     \* the `with get_db_context() as session` block of
                \* process_all_places has been entered and not left

storeVars == <<deleted, points, sim, collSize, ccalls>>
queryVars == <<qpc, qin, qvec, hits, places, rsp, qout, qcalls, qfail, other>>
embedVars == <<attempt, slept, emb, tries>>
batchVars == <<bpc, bin, stats, offset, page, idx, attempt, slept, emb, tries, log,
               points0, retrErr, berr, upErr, prev, bcalls, session>>
vars == <<deleted, points, sim, collSize, ccalls,
          qpc, qin, qvec, hits, places, rsp, qout, qcalls, qfail, other,
          bpc, bin, stats, offset, page, idx, attempt, slept, emb, tries, log,
          points0, retrErr, berr, upErr, prev, bcalls, session>>

\* ------------------------------------------------------------ sequences
Range(s) == {s[i] : i \in 1..Len(s)}
Min2(a, b) == IF a <= b THEN a ELSE b
InjectiveSeqs(S, n) == {s \in [1..n -> S] : \A i, j \in 1..n : s[i] = s[j] => i = j}
\* every ordering of a finite set
Perms(S) == InjectiveSeqs(S, Cardinality(S))

\* ------------------------------------------------------------ uuid.UUID
\* UUID(place_id): ValueError for a malformed string
UUIDParse(s) == IF s.form = "bad" THEN Invalid ELSE s.u
\* str(place.id): always the canonical spelling
StrOfUUID(u) == IdStr("canon", u)

\* ------------------------------------------------- PlaceRepository (reads)
Live == Ids \ deleted
get_by_id(u) == IF u \in Live THEN {u} ELSE {}
\* the UUIDs kept by the parsing loop, then the IN (...) AND deleted_at IS NULL
\* query; the rows come back in no particular order
uuid_ids(place_ids) ==
    {UUIDParse(place_ids[i]) : i \in 1..Len(place_ids)} \ {Invalid}
get_places_by_ids_NoIdFilter(place_ids) ==
    IF uuid_ids(place_ids) = {} THEN {} ELSE Live
get_places_by_ids_NoDeletedFilter(place_ids) ==
    IF uuid_ids(place_ids) = {} THEN {} ELSE uuid_ids(place_ids)
get_places_by_ids_AllOrNothing(place_ids) ==
    IF \E i \in 1..Len(place_ids) : UUIDParse(place_ids[i]) = Invalid THEN {}
    ELSE {u \in uuid_ids(place_ids) : u \notin deleted}
get_places_by_ids(place_ids) ==
    IF uuid_ids(place_ids) = {} THEN {}
    ELSE {u \in uuid_ids(place_ids) : u \notin deleted}
count == Cardinality(Live)

\* ------------------------------------------------ RecommendationResponse
Response_CountsHits(d, recs) ==
    [query |-> d, total_found |-> Len(hits), recommendations |-> recs]
Response(d, recs) ==
    [query |-> d, total_found |-> Len(recs), recommendations |-> recs]
EmptyResponse(d) == [query |-> d, total_found |-> 0, recommendations |-> <<>>]
NoResponse == [query |-> "", total_found |-> 0, recommendations |-> <<>>]

\* ------------------------------------------------ Qdrant client.search
\* what the collection can answer for (query_vector, limit, score_threshold):
\* at most `limit` points, none below the threshold, best first; equal scores
\* in any order
Matching(th) == {u \in points : sim[u] >= th}
Ranked_IgnoresLimit(limit, th) ==
    LET H == Matching(th)
    IN  {s \in InjectiveSeqs(H, Cardinality(H)) :
            \A i \in 1..(Len(s) - 1) : sim[s[i]] >= sim[s[i + 1]]}
Ranked(limit, th) ==
    LET H == Matching(th)
        k == Min2(limit, Cardinality(H))
    IN  {s \in InjectiveSeqs(H, k) :
            /\ \A i \in 1..(k - 1) : sim[s[i]] >= sim[s[i + 1]]
            /\ \A u \in H \ Range(s) : \A i \in 1..k : sim[s[i]] >= sim[u]}

\* results.append({"id": scored_point.id, "score": scored_point.score, ...})
FormatResults(s, fm) ==
    [i \in 1..Len(s) |-> [id |-> IdStr(fm[i], s[i]), score |-> sim[s[i]]]]

\* ------------------------------------------------ fusion and ranking
\* score_map = {result["id"]: result["score"] ...}; .get(place_id, 0.0)
ScoreMapGet(hs, key) ==
    LET at == {i \in 1..Len(hs) : hs[i].id = key}
    IN  IF at = {} THEN DefaultScore
        ELSE hs[CHOOSE i \in at : \A j \in at : j <= i].score

Fuse_ByPosition(ps, hs) ==
    [i \in 1..Len(ps) |-> [id |-> ps[i], similarity_score |-> hs[i].score]]
Fuse(ps, hs) ==
    [i \in 1..Len(ps) |->
        [id |-> ps[i], similarity_score |-> ScoreMapGet(hs, StrOfUUID(ps[i]))]]

\* recommendations.sort(key=similarity_score, reverse=True): stable
RECURSIVE InsertDesc(_, _)
InsertDesc(r, s) ==
    IF s = <<>> THEN <<r>>
    ELSE IF Head(s).similarity_score >= r.similarity_score
         THEN <<Head(s)>> \o InsertDesc(r, Tail(s))
         ELSE <<r>> \o s

RECURSIVE SortDesc(_)
SortDesc_Unsorted(s) == s
SortDesc(s) ==
    IF s = <<>> THEN <<>>
    ELSE InsertDesc(s[Len(s)], SortDesc(SubSeq(s, 1, Len(s) - 1)))

\* ------------------------------------------------ get_recommendations
\* the outer `except Exception`: log, then the empty response
OnException_Reraise(d) == [out |-> "raised", rsp |-> NoResponse]
OnException(d) == [out |-> "returned", rsp |-> EmptyResponse(d)]

Return(r) ==
    /\ qpc' = "done"
    /\ qout' = "returned"
    /\ rsp' = r

Degrade(step) ==
    /\ qpc' = "done"
    /\ qfail' = step
    /\ qout' = OnException(qin.description).out
    /\ rsp' = OnException(qin.description).rsp

Start(d, l) ==
    /\ qpc = "idle"
    /\ qpc' = "health"
    /\ qin' = [description |-> d, limit |-> l]
    /\ qvec' = 0
    /\ hits' = <<>>
    /\ places' = <<>>
    /\ rsp' = NoResponse
    /\ qout' = "none"
    /\ qcalls' = <<>>
    /\ qfail' = "none"
    /\ UNCHANGED <<storeVars, batchVars, other>>

\* qdrant_health_check(): connected
HealthOk_CreatesCollection ==
    /\ qpc = "health"
    /\ qpc' = "embed"
    /\ qcalls' = Append(qcalls, "health")
    /\ collSize' = IF collSize = 0 THEN VectorSize ELSE collSize
    /\ UNCHANGED <<qin, qvec, hits, places, rsp, qout, qfail>>
    /\ UNCHANGED <<deleted, points, sim, ccalls, batchVars, other>>
HealthOk ==
    /\ qpc = "health"
    /\ qpc' = "embed"
    /\ qcalls' = Append(qcalls, "health")
    /\ UNCHANGED <<qin, qvec, hits, places, rsp, qout, qfail>>
    /\ UNCHANGED <<storeVars, batchVars, other>>

\* qdrant_health_check(): not connected; the early return
HealthDown_Continues ==
    /\ qpc = "health"
    /\ qpc' = "embed"
    /\ qcalls' = Append(qcalls, "health")
    /\ qfail' = "health"
    /\ UNCHANGED <<qin, qvec, hits, places, rsp, qout>>
    /\ UNCHANGED <<storeVars, batchVars, other>>
HealthDown ==
    /\ qpc = "health"
    /\ qcalls' = Append(qcalls, "health")
    /\ Return(EmptyResponse(qin.description))
    /\ qfail' = "health"
    /\ UNCHANGED <<qin, qvec, hits, places>>
    /\ UNCHANGED <<storeVars, batchVars, other>>

\* openai_client.embeddings.create: one call
EmbedOk(dim) ==
    /\ qpc = "embed"
    /\ qpc' = "search"
    /\ qvec' = dim
    /\ qcalls' = Append(qcalls, "embed")
    /\ UNCHANGED <<qin, hits, places, rsp, qout, qfail>>
    /\ UNCHANGED <<storeVars, batchVars, other>>

EmbedFail_Retry ==
    /\ qpc = "embed"
    /\ qcalls' = Append(qcalls, "embed")
    /\ IF Len(qcalls) < MaxRetries
       THEN UNCHANGED <<qpc, qout, rsp, qfail>>
       ELSE Degrade("embedding")
    /\ UNCHANGED <<qin, qvec, hits, places>>
    /\ UNCHANGED <<storeVars, batchVars, other>>
EmbedFail ==
    /\ qpc = "embed"
    /\ qcalls' = Append(qcalls, "embed")
    /\ Degrade("embedding")
    /\ UNCHANGED <<qin, qvec, hits, places>>
    /\ UNCHANGED <<storeVars, batchVars, other>>

\* search_similar_places: the dimension check raises ValueError before the
\* client is called
SearchBadDim_Raises ==
    /\ qpc = "search"
    /\ qvec # VectorSize
    /\ qpc' = "done"
    /\ qfail' = "dimension"
    /\ qout' = "raised"
    /\ rsp' = NoResponse
    /\ UNCHANGED <<qin, qvec, hits, places, qcalls>>
    /\ UNCHANGED <<storeVars, batchVars, other>>
SearchBadDim ==
    /\ qpc = "search"
    /\ qvec # VectorSize
    /\ Degrade("dimension")
    /\ UNCHANGED <<qin, qvec, hits, places, qcalls>>
    /\ UNCHANGED <<storeVars, batchVars, other>>

\* client.search raises (transport, no such collection, a vector of another
\* size than the collection's)
SearchFail ==
    /\ qpc = "search"
    /\ qvec = VectorSize
    /\ qcalls' = Append(qcalls, "search")
    /\ Degrade("search")
    /\ UNCHANGED <<qin, qvec, hits, places>>
    /\ UNCHANGED <<storeVars, batchVars, other>>

SearchOk_AlwaysFetch(s, fm) ==
    /\ qpc = "search"
    /\ qvec = VectorSize
    /\ qvec = collSize
    /\ qcalls' = Append(qcalls, "search")
    /\ hits' = FormatResults(s, fm)
    /\ qpc' = "fetch"
    /\ UNCHANGED <<rsp, qout>>
    /\ UNCHANGED <<qin, qvec, places, qfail>>
    /\ UNCHANGED <<storeVars, batchVars, other>>
SearchOk(s, fm) ==
    /\ qpc = "search"
    /\ qvec = VectorSize
    /\ qvec = collSize
    /\ qcalls' = Append(qcalls, "search")
    /\ hits' = FormatResults(s, fm)
    /\ IF s = <<>>
       THEN Return(EmptyResponse(qin.description))
       ELSE /\ qpc' = "fetch"
            /\ UNCHANGED <<rsp, qout>>
    /\ UNCHANGED <<qin, qvec, places, qfail>>
    /\ UNCHANGED <<storeVars, batchVars, other>>

\* get_db_context() or the query raises
FetchFail ==
    /\ qpc = "fetch"
    /\ qcalls' = Append(qcalls, "fetch")
    /\ Degrade("store")
    /\ UNCHANGED <<qin, qvec, hits, places>>
    /\ UNCHANGED <<storeVars, batchVars, other>>

\* the rows come back in the order ps; fuse, sort, return
FetchOk_MissingIsError(ps) ==
    /\ qpc = "fetch"
    /\ qcalls' = Append(qcalls, "fetch")
    /\ IF Len(ps) < Len(hits)
       THEN /\ Degrade("unresolved")
            /\ UNCHANGED places
       ELSE /\ places' = ps
            /\ Return(Response(qin.description, SortDesc(Fuse(ps, hits))))
            /\ UNCHANGED qfail
    /\ UNCHANGED <<qin, qvec, hits>>
    /\ UNCHANGED <<storeVars, batchVars, other>>
FetchOk(ps) ==
    /\ qpc = "fetch"
    /\ qcalls' = Append(qcalls, "fetch")
    /\ places' = ps
    /\ Return(Response(qin.description, SortDesc(Fuse(ps, hits))))
    /\ UNCHANGED <<qin, qvec, hits, qfail>>
    /\ UNCHANGED <<storeVars, batchVars, other>>

place_ids == [i \in 1..Len(hits) |-> hits[i].id]

QueryNext ==
    \/ \E d \in Descriptions, l \in 1..MaxLimit : Start(d, l)
    \/ HealthOk
    \/ HealthDown
    \/ \E dim \in Dims : EmbedOk(dim)
    \/ EmbedFail
    \/ SearchBadDim
    \/ SearchFail
    \/ /\ qpc = "search"
       /\ \E s \in Ranked(qin.limit, ScoreThreshold) :
             \E fm \in [1..Len(s) -> Forms] : SearchOk(s, fm)
    \/ FetchFail
    \/ /\ qpc = "fetch"
       /\ \E ps \in Perms(get_places_by_ids(place_ids)) : FetchOk(ps)

\* ------------------------------------------------ PlaceRepository.delete
\* soft delete: get_by_id, then deleted_at = now. Rows change only while no
\* request and no batch run is under way.
Delete(u) ==
    /\ qpc = "idle"
    /\ bpc = "idle"
    /\ get_by_id(u) # {}
    /\ deleted' = deleted \cup {u}
    /\ UNCHANGED <<points, sim, collSize, ccalls, queryVars, batchVars>>

\* ------------------------------ PlaceEmbeddingRepository.create_collection
\* called by PlaceEmbeddingQdrantGenerator.__init__ before any run:
\* get_collections, then create_collection(size=vector_size) only when the
\* name is not listed
create_collection_Recreate ==
    /\ qpc = "idle"
    /\ bpc = "idle"
    /\ ccalls' = <<"get_collections", "create_collection">>
    /\ collSize' = VectorSize
    /\ points' = {}
    /\ UNCHANGED <<deleted, sim, queryVars, batchVars>>
create_collection ==
    /\ qpc = "idle"
    /\ bpc = "idle"
    /\ IF collSize = 0
       THEN /\ ccalls' = <<"get_collections", "create_collection">>
            /\ collSize' = VectorSize
            /\ points' = {}
       ELSE /\ ccalls' = <<"get_collections">>
            /\ UNCHANGED <<collSize, points>>
    /\ UNCHANGED <<deleted, sim, queryVars, batchVars>>

\* a provider call of create_collection raises: logged and re-raised
create_collection_Raises(at) ==
    /\ qpc = "idle"
    /\ bpc = "idle"
    /\ at = "create_collection" => collSize = 0
    /\ ccalls' = IF at = "get_collections"
                 THEN <<"get_collections", "raised">>
                 ELSE <<"get_collections", "create_collection", "raised">>
    /\ UNCHANGED <<deleted, points, sim, collSize, queryVars, batchVars>>

\* ------------------------------------------------ PlaceRepository.get_all
\* the live rows in table order
RECURSIVE LiveFrom(_)
LiveFrom(u) ==
    IF u > NumPlaces THEN <<>>
    ELSE (IF u \in deleted THEN <<>> ELSE <<u>>) \o LiveFrom(u + 1)
LiveSeq == LiveFrom(1)
\* .offset(skip).limit(limit).all()
get_all_NoDeletedFilter(skip, limit) ==
    SubSeq([u \in 1..NumPlaces |-> u], skip + 1, Min2(skip + limit, NumPlaces))
get_all(skip, limit) ==
    SubSeq(LiveSeq, skip + 1, Min2(skip + limit, Len(LiveSeq)))

\* ------------------------------------------------ generate_enriched_text
\* the text columns of a row, as present or empty
PlaceFields ==
    [name : BOOLEAN, category : BOOLEAN, neighborhood : BOOLEAN,
     description : BOOLEAN, rating : BOOLEAN, price : BOOLEAN]
Word(present, w) == IF present THEN <<w>> ELSE <<>>
\* "".join(text_parts): words and blanks
text_parts(f) ==
    (IF f.category
        THEN Word(f.name, "name") \o <<" ", "es", " ", "un", " ", "category">>
        ELSE Word(f.name, "name"))
    \o (IF f.neighborhood THEN <<"ubicado", " ", "en", " ", "zona">> ELSE <<>>)
    \o (IF f.description THEN <<".", " ", "description">> ELSE <<".">>)
    \o (IF f.rating THEN <<" ", "Este", " ", "lugar", " ", "rating">> ELSE <<>>)
    \o (IF f.price THEN <<" ", "y", " ", "precios", " ", "price">> ELSE <<>>)
\* .strip()
RECURSIVE LStrip(_)
LStrip(t) == IF t # <<>> /\ Head(t) = " " THEN LStrip(Tail(t)) ELSE t
RECURSIVE RStrip(_)
RStrip(t) ==
    IF t # <<>> /\ t[Len(t)] = " " THEN RStrip(SubSeq(t, 1, Len(t) - 1)) ELSE t
generate_enriched_text(f) == RStrip(LStrip(text_parts(f)))
\* `if not enriched_text` is all process_all_places looks at: one row for
\* each outcome of that test that some row produces
EnrichInputs ==
    {f \in PlaceFields :
        f = CHOOSE g \in PlaceFields :
                (generate_enriched_text(g) = <<>>) = (generate_enriched_text(f) = <<>>)}

\* ------------------------------------------------ process_all_places
\* one entry of the call log: the record, the call, whether it answered
\* (generate_embedding: whether it returned a vector)
Call(u, c, ok) == [id |-> u, call |-> c, ok |-> ok]
ZeroStats ==
    [total_places |-> 0, processed |-> 0, successful |-> 0, failed |-> 0,
     skipped |-> 0]
FirstStep_AlwaysCheck == "check"
FirstStep == IF bin.skip_existing THEN "check" ELSE "enrich"
place == page[idx]

\* the end of one iteration of `for place in places`: the next record of the
\* page (processed += 1), or offset += batch_size and the next page
AfterRecord_OffsetByOne(st) ==
    IF idx < Len(page)
    THEN /\ idx' = idx + 1
         /\ stats' = [st EXCEPT !.processed = @ + 1]
         /\ bpc' = FirstStep
         /\ UNCHANGED offset
    ELSE /\ idx' = 0
         /\ stats' = st
         /\ bpc' = "page"
         /\ offset' = offset + 1
AfterRecord(st) ==
    IF idx < Len(page)
    THEN /\ idx' = idx + 1
         /\ stats' = [st EXCEPT !.processed = @ + 1]
         /\ bpc' = FirstStep
         /\ UNCHANGED offset
    ELSE /\ idx' = 0
         /\ stats' = st
         /\ bpc' = "page"
         /\ offset' = offset + bin.batch_size

RecordSkipped ==
    /\ log' = Append(log, [id |-> place, out |-> "skipped"])
    /\ AfterRecord([stats EXCEPT !.skipped = @ + 1])

RecordSucceeded ==
    /\ log' = Append(log, [id |-> place, out |-> "successful"])
    /\ AfterRecord([stats EXCEPT !.successful = @ + 1])

\* stats["failed"] += 1; continue
RecordFailed_Abort ==
    /\ log' = Append(log, [id |-> place, out |-> "failed"])
    /\ stats' = [stats EXCEPT !.failed = @ + 1]
    /\ bpc' = "done"
    /\ UNCHANGED <<idx, offset>>
RecordFailed ==
    /\ log' = Append(log, [id |-> place, out |-> "failed"])
    /\ AfterRecord([stats EXCEPT !.failed = @ + 1])

\* a generator exists once its __init__, and so create_collection, returned
Constructed == ccalls # <<>> /\ ccalls[Len(ccalls)] # "raised"

BStart(bs, skip) ==
    /\ qpc = "idle"
    /\ Constructed
    /\ bpc \in {"idle", "done"}
    /\ bpc' = "count"
    /\ bin' = [batch_size |-> bs, skip_existing |-> skip]
    /\ stats' = ZeroStats
    /\ offset' = 0
    /\ page' = <<>>
    /\ idx' = 0
    /\ log' = <<>>
    /\ points0' = points
    /\ retrErr' = FALSE
    /\ berr' = FALSE
    /\ upErr' = {}
    /\ bcalls' = {}
    /\ session' = FALSE
    /\ prev' = IF bpc = "idle" \/ ~bin.skip_existing \/ berr THEN "none"
               ELSE IF stats.failed > 0 THEN "failed"
               ELSE "clean"
    /\ UNCHANGED <<embedVars, storeVars, queryVars>>

\* repository.count()
CountOk ==
    /\ bpc = "count"
    /\ stats' = [stats EXCEPT !.total_places = count]
    /\ bpc' = "page"
    /\ session' = TRUE
    /\ UNCHANGED <<bin, offset, page, idx, log, points0, retrErr, berr, prev, upErr, bcalls>>
    /\ UNCHANGED <<embedVars, storeVars, queryVars>>

\* the relational store raises: the outer except, return stats
StoreFail_Raises ==
    /\ bpc \in {"count", "page"}
    /\ bpc' = "raised"
    /\ berr' = TRUE
    /\ session' = FALSE
    /\ UNCHANGED <<bin, stats, offset, page, idx, log, points0, retrErr, prev, upErr, bcalls>>
    /\ UNCHANGED <<embedVars, storeVars, queryVars>>
StoreFail ==
    /\ bpc \in {"count", "page"}
    /\ bpc' = "done"
    /\ berr' = TRUE
    /\ session' = FALSE
    /\ UNCHANGED <<bin, stats, offset, page, idx, log, points0, retrErr, prev, upErr, bcalls>>
    /\ UNCHANGED <<embedVars, storeVars, queryVars>>

\* repository.get_all(skip=offset, limit=batch_size)
PageOk ==
    /\ bpc = "page"
    /\ page' = get_all(offset, bin.batch_size)
    /\ IF page' = <<>>
       THEN /\ bpc' = "done"
            /\ session' = FALSE
            /\ UNCHANGED <<stats, idx>>
       ELSE /\ bpc' = FirstStep
            /\ idx' = 1
            /\ stats' = [stats EXCEPT !.processed = @ + 1]
            /\ UNCHANGED session
    /\ UNCHANGED <<bin, offset, log, points0, retrErr, berr, prev, upErr, bcalls>>
    /\ UNCHANGED <<embedVars, storeVars, queryVars>>

CheckFound_AsAbsent ==
    /\ bpc = "check"
    /\ bcalls' = bcalls \cup {Call(place, "retrieve", TRUE)}
    /\ place \in points
    /\ bpc' = "enrich"
    /\ UNCHANGED <<bin, stats, offset, page, idx, log, points0, retrErr, berr, prev, upErr, session>>
    /\ UNCHANGED <<embedVars, storeVars, queryVars>>
\* check_if_embedding_exists: retrieve returned the point
CheckFound ==
    /\ bpc = "check"
    /\ bcalls' = bcalls \cup {Call(place, "retrieve", TRUE)}
    /\ place \in points
    /\ RecordSkipped
    /\ UNCHANGED <<bin, page, points0, retrErr, berr, prev, upErr, session>>
    /\ UNCHANGED <<embedVars, storeVars, queryVars>>

\* retrieve returned no point
CheckAbsent ==
    /\ bpc = "check"
    /\ bcalls' = bcalls \cup {Call(place, "retrieve", TRUE)}
    /\ place \notin points
    /\ bpc' = "enrich"
    /\ UNCHANGED <<bin, stats, offset, page, idx, log, points0, retrErr, berr, prev, upErr, session>>
    /\ UNCHANGED <<embedVars, storeVars, queryVars>>

\* retrieve raised: False
CheckError_Skips ==
    /\ bpc = "check"
    /\ bcalls' = bcalls \cup {Call(place, "retrieve", FALSE)}
    /\ retrErr' = TRUE
    /\ RecordSkipped
    /\ UNCHANGED <<bin, page, points0, berr, prev, upErr, session>>
    /\ UNCHANGED <<embedVars, storeVars, queryVars>>
CheckError ==
    /\ bpc = "check"
    /\ bcalls' = bcalls \cup {Call(place, "retrieve", FALSE)}
    /\ bpc' = "enrich"
    /\ retrErr' = TRUE
    /\ UNCHANGED <<bin, stats, offset, page, idx, log, points0, berr, prev, upErr, session>>
    /\ UNCHANGED <<embedVars, storeVars, queryVars>>

\* generate_enriched_text(place); `if not enriched_text`
Enrich(f) ==
    /\ bpc = "enrich"
    /\ IF generate_enriched_text(f) = <<>>
       THEN /\ RecordFailed
            /\ UNCHANGED embedVars
       ELSE /\ bpc' = "embed"
            /\ attempt' = 0
            /\ slept' = <<>>
            /\ emb' = "none"
            /\ tries' = 0
            /\ UNCHANGED <<stats, offset, idx, log>>
    /\ UNCHANGED <<bin, page, points0, retrErr, berr, prev, upErr, bcalls, session>>
    /\ UNCHANGED <<storeVars, queryVars>>

\* generate_embedding: embeddings.create answers; return embedding
AttemptOk ==
    /\ bpc = "embed"
    /\ emb = "none"
    /\ emb' = "vector"
    /\ tries' = tries + 1
    /\ UNCHANGED <<attempt, slept>>
    /\ UNCHANGED <<bpc, bin, stats, offset, page, idx, log, points0, retrErr, berr, prev, upErr, bcalls, session>>
    /\ UNCHANGED <<storeVars, queryVars>>

\* generate_embedding: embeddings.create raises; sleep and go round, or
\* return None after the last attempt
AttemptFail_NoRetry ==
    /\ bpc = "embed"
    /\ emb = "none"
    /\ tries' = tries + 1
    /\ emb' = "None"
    /\ UNCHANGED <<attempt, slept>>
    /\ UNCHANGED <<bpc, bin, stats, offset, page, idx, log, points0, retrErr, berr, prev, upErr, bcalls, session>>
    /\ UNCHANGED <<storeVars, queryVars>>
AttemptFail ==
    /\ bpc = "embed"
    /\ emb = "none"
    /\ tries' = tries + 1
    /\ IF attempt < MaxRetries - 1
       THEN /\ slept' = Append(slept, RetryDelay * (attempt + 1))
            /\ attempt' = attempt + 1
            /\ UNCHANGED emb
       ELSE /\ emb' = "None"
            /\ UNCHANGED <<attempt, slept>>
    /\ UNCHANGED <<bpc, bin, stats, offset, page, idx, log, points0, retrErr, berr, prev, upErr, bcalls, session>>
    /\ UNCHANGED <<storeVars, queryVars>>

\* `if not embedding`: failed, or on to save_embedding_to_qdrant
Embedded_UpsertsNone ==
    /\ bpc = "embed"
    /\ emb # "none"
    /\ bpc' = "upsert"
    /\ bcalls' = bcalls \cup {Call(place, "embed", emb = "vector")}
    /\ attempt' = 0
    /\ slept' = <<>>
    /\ emb' = "none"
    /\ tries' = 0
    /\ UNCHANGED <<stats, offset, idx, log>>
    /\ UNCHANGED <<bin, page, points0, retrErr, berr, prev, upErr, session>>
    /\ UNCHANGED <<storeVars, queryVars>>
Embedded ==
    /\ bpc = "embed"
    /\ emb # "none"
    /\ IF emb = "None"
       THEN RecordFailed
       ELSE /\ bpc' = "upsert"
            /\ UNCHANGED <<stats, offset, idx, log>>
    /\ bcalls' = bcalls \cup {Call(place, "embed", emb = "vector")}
    /\ attempt' = 0
    /\ slept' = <<>>
    /\ emb' = "none"
    /\ tries' = 0
    /\ UNCHANGED <<bin, page, points0, retrErr, berr, prev, upErr, session>>
    /\ UNCHANGED <<storeVars, queryVars>>

\* upsert_embedding after client.upsert answered (ok) or raised: any
\* exception is logged and raised again
upsert_embedding_Swallows(ok) == "returned"
upsert_embedding(ok) == IF ok THEN "returned" ELSE "raised"
\* save_embedding_to_qdrant: True when upsert_embedding returned, False when
\* it raised
save_embedding_to_qdrant(r) == r = "returned"

\* client.upsert stores the point
UpsertOk ==
    /\ bpc = "upsert"
    /\ collSize = VectorSize
    /\ points' = points \cup {place}
    /\ bcalls' = bcalls \cup {Call(place, "upsert", TRUE)}
    /\ IF save_embedding_to_qdrant(upsert_embedding(TRUE))
       THEN RecordSucceeded
       ELSE RecordFailed
    /\ UNCHANGED <<bin, page, points0, retrErr, berr, prev, upErr, session>>
    /\ UNCHANGED <<embedVars, deleted, sim, collSize, ccalls, queryVars>>

\* client.upsert raises and stores nothing
UpsertFail ==
    /\ bpc = "upsert"
    /\ upErr' = upErr \cup {place}
    /\ bcalls' = bcalls \cup {Call(place, "upsert", FALSE)}
    /\ IF save_embedding_to_qdrant(upsert_embedding(FALSE))
       THEN RecordSucceeded
       ELSE RecordFailed
    /\ UNCHANGED <<bin, page, points0, retrErr, berr, prev, session>>
    /\ UNCHANGED <<embedVars, storeVars, queryVars>>

BatchNext ==
    \/ create_collection
    \/ \E at \in {"get_collections", "create_collection"} :
          create_collection_Raises(at)
    \/ \E bs \in 1..MaxBatch, skip \in BOOLEAN : BStart(bs, skip)
    \/ CountOk
    \/ StoreFail
    \/ PageOk
    \/ CheckFound
    \/ CheckAbsent
    \/ CheckError
    \/ \E f \in EnrichInputs : Enrich(f)
    \/ AttemptOk
    \/ AttemptFail
    \/ Embedded
    \/ UpsertOk
    \/ UpsertFail

\* ------------------------------------------------------------ initial state
\* the locals of a request that has not been made
NoRequest ==
    [qpc |-> "idle", qin |-> [description |-> "", limit |-> 0], qvec |-> 0,
     hits |-> <<>>, places |-> <<>>, rsp |-> NoResponse, qout |-> "none",
     qcalls |-> <<>>, qfail |-> "none"]
\* the sizes a collection found under the configured name can have
CollSizes == {0, VectorSize, 2 * VectorSize}

QueryIdle ==
    /\ qpc = "idle"
    /\ qin = [description |-> "", limit |-> 0]
    /\ qvec = 0
    /\ hits = <<>>
    /\ places = <<>>
    /\ rsp = NoResponse
    /\ qout = "none"
    /\ qcalls = <<>>
    /\ qfail = "none"
    /\ other = NoRequest

BatchIdle ==
    /\ bpc = "idle"
    /\ bin = [batch_size |-> 1, skip_existing |-> TRUE]
    /\ stats = ZeroStats
    /\ offset = 0
    /\ page = <<>>
    /\ idx = 0
    /\ attempt = 0
    /\ slept = <<>>
    /\ emb = "none"
    /\ tries = 0
    /\ log = <<>>
    /\ points0 = {}
    /\ retrErr = FALSE
    /\ berr = FALSE
    /\ upErr = {}
    /\ prev = "none"
    /\ bcalls = {}
    /\ session = FALSE

\* the service facing a store and a collection in any condition
Init ==
    /\ deleted = {}
    /\ collSize \in CollSizes
    /\ ccalls = <<>>
    /\ points \in SUBSET Ids
    /\ collSize = 0 => points = {}
    /\ sim \in [Ids -> Scores]
    /\ \A u \in Ids : u \notin points => sim[u] = 0
    /\ QueryIdle
    /\ BatchIdle

\* the indexer facing a store and a collection in any condition
InitBatch ==
    /\ deleted = {}
    /\ collSize \in CollSizes
    /\ ccalls = <<>>
    /\ points \in SUBSET Ids
    /\ collSize = 0 => points = {}
    /\ sim = [u \in Ids |-> 0]
    /\ QueryIdle
    /\ BatchIdle

Next == QueryNext \/ \E u \in Ids : Delete(u)

\* ------------------------------------------------ two requests in flight
\* Everything get_recommendations computes is held in locals of the call
\* (query_embedding, similar_places, places, score_map, recommendations); the
\* service object and the Qdrant client are only read. A second request is
\* modelled by its locals, kept in `other` while the first one runs: the
\* scheduler may switch between the two after any step.
Me ==
    [qpc |-> qpc, qin |-> qin, qvec |-> qvec, hits |-> hits, places |-> places,
     rsp |-> rsp, qout |-> qout, qcalls |-> qcalls, qfail |-> qfail]

Switch_SharedHits ==
    /\ qpc' = other.qpc
    /\ qin' = other.qin
    /\ qvec' = other.qvec
    /\ places' = other.places
    /\ rsp' = other.rsp
    /\ qout' = other.qout
    /\ qcalls' = other.qcalls
    /\ qfail' = other.qfail
    /\ other' = Me
    /\ UNCHANGED <<hits, storeVars, batchVars>>
Switch ==
    /\ qpc' = other.qpc
    /\ qin' = other.qin
    /\ qvec' = other.qvec
    /\ hits' = other.hits
    /\ places' = other.places
    /\ rsp' = other.rsp
    /\ qout' = other.qout
    /\ qcalls' = other.qcalls
    /\ qfail' = other.qfail
    /\ other' = Me
    /\ UNCHANGED <<storeVars, batchVars>>

\* a collection of two points of equal similarity, and an unindexed place
PairPoints == {u \in Ids : u <= 2}
InitPair ==
    /\ deleted = {}
    /\ collSize = VectorSize
    /\ ccalls = <<>>
    /\ points = PairPoints
    /\ sim \in [Ids -> Scores]
    /\ \A u \in Ids : sim[u] = IF u \in points THEN ScoreThreshold ELSE 0
    /\ QueryIdle
    /\ BatchIdle

NextPair == QueryNext \/ Switch

SpecPair == InitPair /\ [][NextPair]_vars

NextBatch == BatchNext \/ \E u \in Ids : Delete(u)

Spec == Init /\ [][Next]_vars

SpecBatch == InitBatch /\ [][NextBatch]_vars

\* a step of a process_all_places call that has begun: the code is
\* sequential and each call it makes answers or raises, so a call that has
\* begun goes on
RunStep ==
    \/ CountOk
    \/ StoreFail
    \/ PageOk
    \/ CheckFound
    \/ CheckAbsent
    \/ CheckError
    \/ \E f \in EnrichInputs : Enrich(f)
    \/ AttemptOk
    \/ AttemptFail
    \/ Embedded
    \/ UpsertOk
    \/ UpsertFail

\* one process, as main() runs it: one generator and one process_all_places
\* call, over a collection of the configured size that is empty or holds a
\* point for every id
InitScan ==
    /\ InitBatch
    /\ collSize = VectorSize
    /\ points \in {{}, Ids}

process_all_places_once(bs, skip) ==
    /\ bpc = "idle"
    /\ BStart(bs, skip)

NextScan ==
    \/ create_collection
    \/ \E bs \in 1..MaxBatch, skip \in BOOLEAN : process_all_places_once(bs, skip)
    \/ RunStep
    \/ \E u \in Ids : Delete(u)

SpecScan == InitScan /\ [][NextScan]_vars /\ WF_vars(RunStep)

\* ================================================================ claims
recs == rsp.recommendations
Returned == qpc = "done" /\ qout = "returned"

\* C1: get_recommendations never raises to its caller: whatever fails (health
\* check, embedding provider, vector search, dimension check, relational
\* store), the call ends by returning a response, and after any failure that
\* response is the empty one for the query (total_found = 0, no
\* recommendations).
C1_NeverRaises ==
    /\ qout # "raised"
    /\ qpc = "done" => qout = "returned"
    /\ (qpc = "done" /\ qfail # "none") =>
          /\ rsp.total_found = 0
          /\ rsp.recommendations = <<>>
          /\ rsp.query = qin.description

\* a request whose search found places and whose relational fetch then failed
C1_Witness ==
    /\ Returned
    /\ qfail = "store"
    /\ hits # <<>>
    /\ rsp.total_found = 0

\* C2: in every returned response the similarity scores are non-increasing
\* along the list, whatever order the relational store returned the rows in.
C2_Ranked ==
    Returned =>
        \A i \in 1..(Len(recs) - 1) :
            recs[i].similarity_score >= recs[i + 1].similarity_score

\* a response of two places that the store returned worst first
C2_Witness ==
    /\ Returned
    /\ Len(recs) >= 2
    /\ Len(places) >= 2
    /\ ScoreMapGet(hits, StrOfUUID(places[1])) < ScoreMapGet(hits, StrOfUUID(places[2]))
    /\ recs[1].similarity_score > recs[2].similarity_score

\* C3: every place of a returned response is one the vector search of the
\* same call returned (its id is the UUID of one of the returned point ids).
C3_Subset ==
    Returned =>
        \A i \in 1..Len(recs) :
            \E j \in 1..Len(hits) : UUIDParse(hits[j].id) = recs[i].id

\* a non-empty response while a live place exists that the search did not return
C3_Witness ==
    /\ Returned
    /\ recs # <<>>
    /\ \E u \in Live : \A j \in 1..Len(hits) : hits[j].id.u # u

\* C4 (as claimed): every similarity_score of a returned response is at least
\* the score threshold passed to the search, also for a place whose str(id)
\* is no key of the score map.
C4_AboveThreshold ==
    Returned =>
        \A i \in 1..Len(recs) : recs[i].similarity_score >= ScoreThreshold

\* ---------------------------------------------------------- batch indexer
BatchDone == bpc = "done"
\* the run read the store to the end and every existence check answered
CleanRun == ~berr /\ ~retrErr
NumOut(o) == Cardinality({i \in 1..Len(log) : log[i].out = o})
\* K: the live records that had a point when the run started
AlreadyIndexed == Cardinality(points0 \cap Live)

LogPos(u) == {i \in 1..Len(log) : log[i].id = u}
C7_FailureIsolated ==
    /\ stats.failed = NumOut("failed")
    /\ (BatchDone /\ ~berr) =>
          \A i \in 1..Len(log) :
              log[i].out = "failed" =>
                  \A u \in Live : u > log[i].id => \E j \in LogPos(u) : j > i

\* a failed record followed by a successful one on a later page
C7_Witness ==
    /\ BatchDone
    /\ ~berr
    /\ bin.batch_size = 1
    /\ \E i \in 1..Len(log) :
          /\ log[i].out = "failed"
          /\ \E j \in 1..Len(log) : j > i /\ log[j].out = "successful"

\* C8: generate_embedding calls the provider at most MaxRetries times and
\* stops at the first success; the k-th failure, k < MaxRetries, is followed by
\* a sleep of retry_delay * k; None is returned only after MaxRetries failures.
C8_RetryPolicy ==
    /\ tries <= MaxRetries
    /\ \A k \in 1..Len(slept) : slept[k] = RetryDelay * k
    /\ (bpc = "embed" /\ emb = "none") => Len(slept) = tries /\ tries < MaxRetries
    /\ emb = "vector" => Len(slept) = tries - 1
    /\ emb = "None" => tries = MaxRetries /\ Len(slept) = MaxRetries - 1

\* the provider answered at the third call, after sleeps of 1 and 2
C8_Witness ==
    /\ bpc = "embed"
    /\ emb = "vector"
    /\ tries = MaxRetries
    /\ slept = <<RetryDelay, 2 * RetryDelay>>

\* ---------------------------------------------------------- query pipeline
EmbedCalls == Cardinality({i \in 1..Len(qcalls) : qcalls[i] = "embed"})

C10_SoftDeletedHidden ==
    /\ Returned => \A i \in 1..Len(recs) : recs[i].id \notin deleted
    /\ get_places_by_ids(place_ids) \cap deleted = {}
    /\ qpc = "idle" =>
          /\ \A u \in deleted :
                /\ get_by_id(u) = {}
                /\ \A f \in Forms : u \notin get_places_by_ids(<<IdStr(f, u)>>)
          /\ \A skip \in 0..NumPlaces, limit \in 1..NumPlaces :
                Range(get_all(skip, limit)) \cap deleted = {}
          /\ count + Cardinality(deleted) = NumPlaces

\* the search returned a soft-deleted place next to a live one
C10_Witness ==
    /\ Returned
    /\ recs # <<>>
    /\ \E j \in 1..Len(hits) :
          hits[j].id.u \in deleted /\ hits[j].id.form = "canon"

\* ids of the recommendations of the response
RecIds == {recs[i].id : i \in 1..Len(recs)}
\* the places the returned point ids resolve to: parseable and not deleted
Resolved == {u \in Live : \E j \in 1..Len(hits) : UUIDParse(hits[j].id) = u}
\* the request went through every step without a failure
Succeeded == Returned /\ qfail = "none"

\* C11: when the search returned ids, some of which have no live record, the
\* request neither raises nor degrades: it returns one recommendation for each
\* id that resolved and none for the others.
C11_UnresolvedDropped ==
    (qpc = "done" /\ hits # <<>> /\ "fetch" \in Range(qcalls) /\ qfail # "store") =>
        /\ Succeeded
        /\ RecIds = Resolved
        /\ Len(recs) = Cardinality(Resolved)

\* two ids returned by the search, one of a soft-deleted place: one
\* recommendation
C11_Witness ==
    /\ Succeeded
    /\ Len(hits) = 2
    /\ Len(recs) = 1
    /\ \E j \in 1..Len(hits) : hits[j].id.form # "bad" /\ hits[j].id.u \in deleted

\* C12: every response returned, on the success path and on each degraded
\* path, echoes the description passed in and has total_found equal to the
\* length of its recommendations.
C12_QueryAndTotal ==
    qpc = "done" =>
        /\ qout = "returned"
        /\ rsp.query = qin.description
        /\ rsp.total_found = Len(rsp.recommendations)

\* a response for "bar" with fewer recommendations than the search returned ids
C12_Witness ==
    /\ Succeeded
    /\ qin.description = "bar"
    /\ rsp.total_found = 1
    /\ Len(hits) = 2

\* C13: a response never has more recommendations than `limit`, and when the
\* search answered and every id it returned resolves to a live place, it has
\* min(limit, number of points at or above the threshold) of them.
C13_AtMostLimit ==
    qpc = "done" =>
        /\ Len(recs) <= qin.limit
        /\ (Succeeded /\ "search" \in Range(qcalls)
              /\ Cardinality(Resolved) = Len(hits)) =>
               Len(recs) = Min2(qin.limit, Cardinality(Matching(ScoreThreshold)))

\* limit 1 over a collection with two points above the threshold
C13_Witness ==
    /\ Succeeded
    /\ qin.limit = 1
    /\ Cardinality(Matching(ScoreThreshold)) >= 2
    /\ Len(recs) = 1

\* the position at which the search returned the point of place u
HitPos(u) == CHOOSE j \in 1..Len(hits) : UUIDParse(hits[j].id) = u
AllCanonical == \A j \in 1..Len(hits) : hits[j].id.form = "canon"

\* C14 (as claimed): two recommendations with equal similarity scores appear
\* in the relative order in which the search returned their ids, whatever
\* order the relational store returned the rows in (stated for searches whose
\* ids all are canonical strings, so that every score is the point's own).
C14_TiesInIndexOrder ==
    (Succeeded /\ AllCanonical) =>
        \A i, j \in 1..Len(recs) :
            (i < j /\ recs[i].similarity_score = recs[j].similarity_score) =>
                HitPos(recs[i].id) < HitPos(recs[j].id)

\* the response of a request that found no matches
NoMatches == rsp = EmptyResponse(qin.description)
MalformedHit == \E j \in 1..Len(hits) : UUIDParse(hits[j].id) = Invalid

\* C15 (as claimed): a request that met a validation error (a query vector of
\* the wrong dimension, a malformed id) does not end with the response of a
\* request that found no matches.
C15_ValidationErrorSurfaced ==
    (qpc = "done" /\ (qfail = "dimension" \/ (MalformedHit /\ Resolved = {}))) =>
        ~(qout = "returned" /\ NoMatches)

\* C15 (amended): a query vector of the wrong dimension is refused before the
\* provider is called and the request returns the empty response, as for any
\* other failure; a malformed id is skipped and the request returns the
\* recommendations of the other ids.
C15_ValidationErrorSwallowed ==
    /\ qfail = "dimension" =>
          /\ Returned
          /\ NoMatches
          /\ "search" \notin Range(qcalls)
    /\ (qpc = "done" /\ MalformedHit /\ qfail = "none") =>
          /\ Returned
          /\ RecIds = Resolved

\* an embedding of 3072 dimensions: the empty response
C15_Witness ==
    /\ Returned
    /\ qfail = "dimension"
    /\ qvec = 2 * VectorSize
    /\ NoMatches

\* C16 (as claimed): a search with a query vector whose length differs from
\* the size the collection is configured with fails at the dimension check,
\* before the provider's search is called, whatever size the collection has.
C16_DimensionChecked ==
    (collSize # 0 /\ qvec # 0 /\ qvec # collSize /\ qpc = "done") =>
        /\ qfail = "dimension"
        /\ "search" \notin Range(qcalls)

\* ---------------------------------------------------------- the collection
\* a step of create_collection, returning or raising
CreateCollectionStep ==
    \/ create_collection
    \/ \E at \in {"get_collections", "create_collection"} :
          create_collection_Raises(at)

\* C17: create_collection issues the provider's create only when no collection
\* of the configured name exists; it leaves the points and the configuration
\* of an existing collection as they are; when it returns the collection
\* exists, so that a further call changes nothing.
C17_CreateCollectionIdempotent ==
    [][CreateCollectionStep =>
          /\ "create_collection" \in Range(ccalls') => collSize = 0
          /\ collSize # 0 => (collSize' = collSize /\ points' = points)
          /\ create_collection => collSize' # 0
          /\ UNCHANGED <<deleted, sim>>]_vars

\* create_collection returned for an existing collection of another size that
\* holds points
C17_Witness ==
    /\ ccalls = <<"get_collections">>
    /\ collSize = 2 * VectorSize
    /\ points # {}
    /\ bpc = "idle"

\* C18: upsert_embedding raises whenever the provider's upsert failed, and a
\* record whose upsert failed is counted as failed, never as succeeded: every
\* record counted as succeeded has its point in the collection.
C18_UpsertErrorPropagates ==
    /\ upsert_embedding(FALSE) = "raised"
    /\ ~save_embedding_to_qdrant(upsert_embedding(FALSE))
    /\ stats.successful = NumOut("successful")
    /\ \A i \in 1..Len(log) :
          /\ log[i].out = "successful" => (log[i].id \notin upErr /\ log[i].id \in points)
          /\ log[i].id \in upErr => log[i].out = "failed"
    /\ \A u \in upErr : LogPos(u) # {}

\* a run in which the upsert of one record failed and that of a later one
\* succeeded
C18_Witness ==
    /\ BatchDone
    /\ upErr # {}
    /\ stats.failed >= 1
    /\ stats.successful >= 1
    /\ \E u \in upErr : u \notin points

\* ---------------------------------------------------------- relational reads
\* the live places named by the parseable strings of a list of ids
LiveParseable(l) ==
    {u \in Ids : /\ u \notin deleted
                 /\ \E i \in 1..Len(l) : l[i].form \in {"canon", "alt"} /\ l[i].u = u}

\* C19: get_places_by_ids skips an unparseable id without raising and returns
\* exactly the live places whose id is among the parseable ids of its input:
\* for the ids of the search at hand, for every list of one id (evaluated
\* between requests, where the rows change), and for the empty list; the rows
\* a request fetched are these places, each once.
C19_BestEffort ==
    /\ get_places_by_ids(place_ids) = LiveParseable(place_ids)
    /\ Invalid \notin get_places_by_ids(place_ids)
    /\ get_places_by_ids(<<>>) = {}
    /\ qpc = "idle" =>
          \A f \in Forms, u \in Ids :
              get_places_by_ids(<<IdStr(f, u)>>) = LiveParseable(<<IdStr(f, u)>>)
    /\ (Succeeded /\ "fetch" \in Range(qcalls)) =>
          /\ Range(places) = LiveParseable(place_ids)
          /\ Len(places) = Cardinality(LiveParseable(place_ids))

\* two ids, one malformed, one of a live place: one row
C19_Witness ==
    /\ Succeeded
    /\ Len(hits) = 2
    /\ MalformedHit
    /\ Len(places) = 1
    /\ places[1] \in Live

\* ---------------------------------------------------------- two requests
\* response is one a request (description d, limit l) can return when it runs
\* alone against the services as they are
CanReturnAlone(d, l, response) ==
    \/ response = EmptyResponse(d)
    \/ \E s \in Ranked(l, ScoreThreshold) :
          /\ s # <<>>
          /\ \E fm \in [1..Len(s) -> Forms] :
                \E ps \in Perms(get_places_by_ids(
                                   [i \in 1..Len(s) |-> IdStr(fm[i], s[i])])) :
                    response = Response(d, SortDesc(Fuse(ps, FormatResults(s, fm))))

\* the locals of a request are consistent with one another: the response was
\* computed from this request's own arguments, hits and rows
OwnResult(r) ==
    r.qpc = "done" =>
        /\ r.qout = "returned"
        /\ CanReturnAlone(r.qin.description, r.qin.limit, r.rsp)
        /\ r.qfail # "none" => r.rsp = EmptyResponse(r.qin.description)
        /\ (r.qfail = "none" /\ "fetch" \in Range(r.qcalls)) =>
              r.rsp = Response(r.qin.description, SortDesc(Fuse(r.places, r.hits)))

\* C20: under any interleaving of the steps of two requests against unchanged
\* services, each request returns a response it can return when run alone,
\* computed from its own arguments and intermediate results, and the requests
\* change nothing they share.
C20_RequestsIndependent ==
    /\ OwnResult(Me)
    /\ OwnResult(other)
    /\ deleted = {} /\ points = PairPoints /\ collSize = VectorSize

\* both requests returned recommendations, for different descriptions and
\* different limits, after their steps were interleaved
C20_Witness ==
    /\ qpc = "done" /\ other.qpc = "done"
    /\ qfail = "none" /\ other.qfail = "none"
    /\ qin.description # other.qin.description
    /\ qin.limit = 1 /\ other.qin.limit = 2
    /\ Len(recs) = 1 /\ Len(other.rsp.recommendations) = 2

\* ---------------------------------------------------------- fusion
\* the positions at which the search returned the string s as a point id
HitsWithId(s) == {j \in 1..Len(hits) : hits[j].id = s}

\* C21: the similarity_score of every place of a response is the score the
\* search of the same call returned under that place's id string, never the
\* score of another id; a fetched place whose id string is no key of the score
\* map is kept, with score 0.0.
C21_ScoreById ==
    Succeeded =>
        /\ \A i \in 1..Len(recs) :
              LET at == HitsWithId(StrOfUUID(recs[i].id))
              IN  IF at = {}
                  THEN recs[i].similarity_score = DefaultScore
                  ELSE \E j \in at : recs[i].similarity_score = hits[j].score
        /\ "fetch" \in Range(qcalls) => RecIds = Range(places)

\* the store returned the rows in the reverse of the search order, the scores
\* differ, and a place found under another spelling of its id is kept with 0.0
C21_Witness ==
    /\ Succeeded
    /\ Len(recs) = 2
    /\ Len(hits) = 2
    /\ hits[1].score > hits[2].score
    /\ places[1] = hits[2].id.u
    /\ hits[1].id.form = "canon"
    /\ hits[2].id.form = "alt"
    /\ recs[1].similarity_score = hits[1].score
    /\ recs[2].similarity_score = DefaultScore

\* C22: when the search returns no result the request returns the empty
\* response at once: the relational store is queried in no such call, and only
\* in calls whose search returned something.
C22_EmptySearchSkipsStore ==
    /\ (qpc # "idle" /\ "search" \in Range(qcalls) /\ qfail = "none" /\ hits = <<>>) =>
          /\ Returned
          /\ NoMatches
          /\ "fetch" \notin Range(qcalls)
          /\ places = <<>>
    /\ (qpc = "fetch" \/ "fetch" \in Range(qcalls)) => hits # <<>>

\* a collection with points, none of them at or above the threshold
C22_Witness ==
    /\ Returned
    /\ qfail = "none"
    /\ qcalls = <<"health", "embed", "search">>
    /\ points # {}
    /\ hits = <<>>

\* ---------------------------------------------------------- read only, ordered
\* a step of a get_recommendations call: every one of them moves the call on
\* or adds to its calls
QueryStep == qpc' # qpc \/ qcalls' # qcalls

\* C26: no step of a get_recommendations call, on the success path or on any
\* failure path, changes the set of points of the collection, their vectors,
\* the collection itself or the rows of the relational store.
C26_QueryReadOnly ==
    [][QueryStep => UNCHANGED <<deleted, points, sim, collSize>>]_vars

\* a call that failed at the search, over a store with points and with
\* soft-deleted rows
C26_Witness ==
    /\ qpc = "done"
    /\ qfail = "search"
    /\ points # {}
    /\ deleted # {}

\* the remote steps of a call, in the order of the code
StepOrder == <<"health", "embed", "search", "fetch">>

\* C27: the remote steps of a call are made in the order health check,
\* embedding, search, fetch, each at most once, and none after the first one
\* that failed: a health check that is down is followed by no embedding,
\* search or store call, a failed embedding by no search or store call.
C27_OrderedStopAtFirstFailure ==
    /\ Len(qcalls) <= Len(StepOrder)
    /\ qcalls = SubSeq(StepOrder, 1, Len(qcalls))
    /\ qfail = "health" => qpc = "done" /\ qcalls = <<"health">>
    /\ qfail = "embedding" => qpc = "done" /\ qcalls = <<"health", "embed">>
    /\ qfail = "search" => qpc = "done" /\ qcalls = <<"health", "embed", "search">>
    /\ qfail = "store" => qpc = "done" /\ qcalls = StepOrder

\* the health check is down over a collection with points to find
C27_Witness ==
    /\ Returned
    /\ qfail = "health"
    /\ qcalls = <<"health">>
    /\ points # {}
    /\ collSize = VectorSize

\* ---------------------------------------------------------- the calls of a run
\* the run made the call c for the record u, whatever came of it
Called(u, c) == \E ok \in BOOLEAN : Call(u, c, ok) \in bcalls

C24_FailedOnceNoUpsert ==
    /\ stats.failed = NumOut("failed")
    /\ \A c \in bcalls :
          (c.call = "embed" /\ ~c.ok) =>
              /\ ~Called(c.id, "upsert")
              /\ Cardinality(LogPos(c.id)) = 1
              /\ \A i \in LogPos(c.id) : log[i].out = "failed"
    /\ \A i \in 1..Len(log) :
          (log[i].out = "failed" /\ ~Called(log[i].id, "embed")) =>
              ~Called(log[i].id, "upsert")
    /\ (bpc = "embed" /\ emb = "None") => tries = MaxRetries

\* the embedding of one record failed and the next record was indexed
C24_Witness ==
    /\ BatchDone
    /\ stats.failed = 1
    /\ stats.successful = 1
    /\ \E i \in 1..Len(log) :
          /\ Call(log[i].id, "embed", FALSE) \in bcalls
          /\ log[i].out = "failed"
          /\ \E j \in 1..Len(log) : j > i /\ Call(log[j].id, "upsert", TRUE) \in bcalls

\* C25 (as claimed): the batch indexer holds no open session of the relational
\* store while generate_embedding runs for a record.
C25_NoSessionWhileEmbedding == bpc = "embed" => ~session

\* C28: a record is counted as skipped only if retrieve answered and returned
\* a point; a record whose retrieve raised is not skipped: generate_embedding
\* is called for it and, when that returns a vector, upsert is called, also
\* when the record had a point.
C28_SkipOnlyWhenRetrieveFinds ==
    \A i \in 1..Len(log) :
        /\ log[i].out = "skipped" =>
              /\ Call(log[i].id, "retrieve", TRUE) \in bcalls
              /\ log[i].id \in points0
        /\ Call(log[i].id, "retrieve", FALSE) \in bcalls =>
              /\ log[i].out # "skipped"
              /\ Called(log[i].id, "embed")
              /\ Call(log[i].id, "embed", TRUE) \in bcalls => Called(log[i].id, "upsert")

\* a record that had a point, whose retrieve raised, was embedded and written
\* over
C28_Witness ==
    /\ BatchDone
    /\ \E i \in 1..Len(log) :
          /\ log[i].id \in points0
          /\ Call(log[i].id, "retrieve", FALSE) \in bcalls
          /\ Call(log[i].id, "embed", TRUE) \in bcalls
          /\ Call(log[i].id, "upsert", TRUE) \in bcalls
          /\ log[i].out = "successful"

\* C29: process_all_places ends by returning its stats, also when the store
\* raises at the count or at a page: the counters are then those of the
\* records handled so far. In returned stats processed = successful + failed +
\* skipped; during a run processed is that sum or one more.
C29_ReturnsStats ==
    LET sum == stats.successful + stats.failed + stats.skipped
    IN  /\ bpc \in {"idle", "count", "page", "check", "enrich", "embed", "upsert", "done"}
        /\ stats.processed \in {sum, sum + 1}
        /\ sum = Len(log)
        /\ stats.successful = NumOut("successful")
        /\ BatchDone => stats.processed = sum
        /\ berr => BatchDone

\* the store raised at the fetch of a later page, after two records
C29_Witness ==
    /\ BatchDone
    /\ berr
    /\ offset > 0
    /\ stats.processed = 2
    /\ stats.successful >= 1
    /\ stats.total_places > 2

\* ---------------------------------------------------------- pagination
Running == bpc \notin {"idle", "done"}

\* what holds of the scan in every state: no record is visited twice, a
\* record is handled only out of a non-empty page, and a scan that ended
\* without a store error ended at the first empty page, one batch_size or
\* less past the last record, having visited each live record once
ScanInv ==
    /\ \A u \in Ids : Cardinality(LogPos(u)) <= 1
    /\ bpc \in {"check", "enrich", "embed", "upsert"} =>
          /\ page # <<>>
          /\ idx \in 1..Len(page)
          /\ offset < count
    /\ (BatchDone /\ ~berr) =>
          /\ page = <<>>
          /\ offset >= count
          /\ offset - bin.batch_size < count
          /\ offset % bin.batch_size = 0
          /\ Len(log) = count
          /\ \A u \in Live : Cardinality(LogPos(u)) = 1

\* offset changes only by batch_size, after the last record of a non-empty
\* page, or to 0 when a run begins
OffsetStep ==
    offset' # offset =>
        \/ bpc' = "count" /\ offset' = 0
        \/ /\ offset' = offset + bin.batch_size
           /\ page # <<>>
           /\ idx = Len(page)
           /\ bpc' = "page"

====
